---- MODULE Spec2Model ----
(***************************************************************************)
(* Model of qa4smreader/dfplot.py: the regridding routine                  *)
(* geotraj_to_geo2d and the value-range helpers get_value_range,           *)
(* get_quantiles, get_cbarextend.                                          *)
(*                                                                         *)
(* Coordinates are Python floats (IEEE-754 binary64).  The routine divides *)
(* and truncates them, so the model carries binary64 arithmetic with its   *)
(* 53-bit significand and round-to-nearest-even, computed on two limbs.    *)
(***************************************************************************)
EXTENDS Integers, Sequences, FiniteSets, TLC

-----------------------------------------------------------------------------
(* Two-limb naturals <<hi, lo>> = hi * LimbBase + lo, below 2^58.          *)

LimbBase == 2^28

WZero == <<0, 0>>

WOne == <<0, 1>>

WLess(a, b) == a[1] < b[1] \/ (a[1] = b[1] /\ a[2] < b[2])

WAdd(a, b) ==
    LET lo == a[2] + b[2]
    IN  <<a[1] + b[1] + (lo \div LimbBase), lo % LimbBase>>

WSub(a, b) ==
    IF a[2] >= b[2] THEN <<a[1] - b[1], a[2] - b[2]>>
    ELSE <<a[1] - b[1] - 1, a[2] + LimbBase - b[2]>>

WDouble(a) == WAdd(a, a)

WHalf(a) == <<a[1] \div 2, (a[1] % 2) * (LimbBase \div 2) + (a[2] \div 2)>>

WOdd(a) == a[2] % 2 = 1

WFromNat(n) == <<n \div LimbBase, n % LimbBase>>

-----------------------------------------------------------------------------
(* binary64 values: s * m * 2^e with s in {-1, 0, 1} and, unless s = 0,    *)
(* 2^52 <= m < 2^53.  Subnormals, infinities and NaN do not arise for the  *)
(* coordinate ranges modelled.                                             *)

Mant52 == <<2^24, 0>>

Mant53 == <<2^25, 0>>

FZero == [s |-> 0, m |-> WZero, e |-> 0]

RECURSIVE NormUp(_)
NormUp(me) ==
    IF WLess(me[1], Mant52) THEN NormUp(<<WDouble(me[1]), me[2] - 1>>) ELSE me

\* round-to-nearest-even of (m + rbit/2 + sticky) * 2^e to 53 bits
RECURSIVE RoundDown(_, _, _, _)
RoundDown(m, e, rbit, sticky) ==
    IF ~WLess(m, Mant53)
    THEN RoundDown(WHalf(m), e + 1, WOdd(m), sticky \/ rbit)
    ELSE IF rbit /\ (sticky \/ WOdd(m))
         THEN LET m1 == WAdd(m, WOne)
              IN  IF m1 = Mant53 THEN <<Mant52, e + 1>> ELSE <<m1, e>>
         ELSE <<m, e>>

FPack(s, m, e, sticky) ==
    IF m = WZero THEN FZero
    ELSE LET me == IF WLess(m, Mant52) THEN NormUp(<<m, e>>)
                   ELSE RoundDown(m, e, FALSE, sticky)
         IN  [s |-> s, m |-> me[1], e |-> me[2]]

\* ms = <<m, sticky, d>>: m shifted right by d bits, sticky collecting the bits lost
RECURSIVE ShiftR(_)
ShiftR(ms) ==
    IF ms[3] = 0 \/ ms[1] = WZero THEN ms
    ELSE ShiftR(<<WHalf(ms[1]), ms[2] \/ WOdd(ms[1]), ms[3] - 1>>)

MagLess(x, y) ==
    IF y.s = 0 THEN FALSE
    ELSE IF x.s = 0 THEN TRUE
    ELSE x.e < y.e \/ (x.e = y.e /\ WLess(x.m, y.m))

W8(m) == WDouble(WDouble(WDouble(m)))

\* |x| + |y| with |x| >= |y| > 0, three guard bits
AddMag(s, x, y) ==
    LET b == ShiftR(<<W8(y.m), FALSE, x.e - y.e>>)
    IN  FPack(s, WAdd(W8(x.m), b[1]), x.e - 3, b[2])

\* |x| - |y| with |x| > |y| > 0
SubMag(s, x, y) ==
    LET b == ShiftR(<<W8(y.m), FALSE, x.e - y.e>>)
        d == WSub(W8(x.m), b[1])
    IN  FPack(s, IF b[2] THEN WSub(d, WOne) ELSE d, x.e - 3, b[2])

FNeg(x) == [x EXCEPT !.s = -x.s]

FAbs(x) == [x EXCEPT !.s = IF x.s = 0 THEN 0 ELSE 1]

FAdd(x, y) ==
    IF x.s = 0 THEN y
    ELSE IF y.s = 0 THEN x
    ELSE IF x.s = y.s
         THEN IF MagLess(x, y) THEN AddMag(x.s, y, x) ELSE AddMag(x.s, x, y)
    ELSE IF MagLess(x, y) THEN SubMag(y.s, y, x)
    ELSE IF MagLess(y, x) THEN SubMag(x.s, x, y)
    ELSE FZero

FSub(x, y) == FAdd(x, FNeg(y))

FLess(x, y) ==
    IF x.s # y.s THEN x.s < y.s
    ELSE IF x.s = 1 THEN MagLess(x, y)
    ELSE IF x.s = -1 THEN MagLess(y, x)
    ELSE FALSE

\* one quotient bit of restoring division: st = <<quotient, remainder, bits left>>
DivStep(st, d) ==
    LET r2 == WDouble(st[2])
    IN  IF WLess(r2, d) THEN <<WDouble(st[1]), r2, st[3] - 1>>
        ELSE <<WAdd(WDouble(st[1]), WOne), WSub(r2, d), st[3] - 1>>

RECURSIVE DivBits(_, _)
DivBits(st, d) ==
    IF st[3] = 0 THEN st ELSE DivBits(DivStep(st, d), d)

\* x / y, y # 0
FDiv(x, y) ==
    IF x.s = 0 THEN FZero
    ELSE LET small == WLess(x.m, y.m)
             n == IF small THEN WDouble(x.m) ELSE x.m
             e == x.e - y.e - (IF small THEN 1 ELSE 0)
             qr == DivBits(<<WOne, WSub(n, y.m), 54>>, y.m)
         IN  FPack(x.s * y.s, qr[1], e - 54, qr[2] # WZero)

RECURSIVE ModBits(_, _, _)
ModBits(r, d, k) ==
    IF k = 0 THEN r
    ELSE LET r2 == WDouble(r)
         IN  ModBits(IF WLess(r2, d) THEN r2 ELSE WSub(r2, d), d, k - 1)

\* x % y for x >= 0, y > 0: exact, as fmod
FMod(x, y) ==
    IF MagLess(x, y) THEN x
    ELSE LET r0 == IF WLess(x.m, y.m) THEN x.m ELSE WSub(x.m, y.m)
         IN  FPack(1, ModBits(r0, y.m, x.e - y.e), y.e, FALSE)

\* int(x): truncation toward zero, |x| < 2^31
FInt(x) ==
    IF x.s = 0 \/ x.e < -52 THEN 0
    ELSE IF x.e >= 0 THEN x.s * (x.m[1] * LimbBase + x.m[2]) * 2^(x.e)
    ELSE LET k == -x.e
         IN  x.s * (IF k >= 28 THEN x.m[1] \div 2^(k - 28)
                    ELSE x.m[1] * 2^(28 - k) + (x.m[2] \div 2^k))

FFromInt(n) ==
    IF n = 0 THEN FZero
    ELSE FPack(IF n < 0 THEN -1 ELSE 1, WFromNat(IF n < 0 THEN -n ELSE n), 0, FALSE)

-----------------------------------------------------------------------------
(* geotraj_to_geo2d                                                        *)

\* atol = 1e-08, the default of _float_gcd
AtolInverse == 100000000

FAtol == FDiv(FFromInt(1), FFromInt(AtolInverse))

\* the float a coordinate literal k/scale denotes (scale 1: k.0, scale 10: tenths)
Coord(k, scale) ==
    IF scale = 1 THEN FFromInt(k) ELSE FDiv(FFromInt(k), FFromInt(scale))

\* the missing-value sentinel of a grid cell, and a cell holding value z
NaN == <<>>

Cell(z) == <<z>>

RECURSIVE SortAsc(_)
SortAsc(S) ==
    IF S = {} THEN <<>>
    ELSE LET lo == CHOOSE x \in S : \A y \in S : ~FLess(y, x)
         IN  <<lo>> \o SortAsc(S \ {lo})

\* np.unique: the distinct values, ascending
np_unique(a) == SortAsc({a[i] : i \in DOMAIN a})

\* np.diff: consecutive differences
np_diff(a) == [i \in 1..(Len(a) - 1) |-> FSub(a[i + 1], a[i])]

\* _float_gcd with its loop never entered
_float_gcd_noloop(a, b) == a

RECURSIVE _float_gcd(_, _)
_float_gcd(a, b) ==
    IF FLess(FAtol, FAbs(b)) THEN _float_gcd(b, FMod(a, b)) ELSE a

RECURSIVE GcdFold(_, _, _)
GcdFold(das, i, da) ==
    IF i > Len(das) THEN da ELSE GcdFold(das, i + 1, _float_gcd(das[i], da))

FOne == FFromInt(1)

FTwo == FFromInt(2)

\* len_a = int((a_max - a_min) / da + 1)
AxisLen(a_min, a_max, da) ==
    FInt(FAdd(FDiv(FSub(a_max, a_min), da), FOne))

\* _get_even treating an axis with a single value as one cell of step 1
_get_even_single(a) ==
    LET u == np_unique(a)
        das == np_unique(np_diff(u))
    IN  IF Len(u) = 0 THEN [exc |-> "IndexError"]
        ELSE LET da == IF Len(das) = 0 THEN FOne ELSE GcdFold(das, 2, das[1])
             IN  [exc |-> "none", a_min |-> u[1], a_max |-> u[Len(u)], da |-> da,
                  len_a |-> AxisLen(u[1], u[Len(u)], da)]

\* das[0] of an empty array raises IndexError
_get_even(a) ==
    LET u == np_unique(a)
        das == np_unique(np_diff(u))
    IN  IF Len(das) = 0 THEN [exc |-> "IndexError"]
        ELSE LET da == GcdFold(das, 2, das[1])
             IN  [exc |-> "none", a_min |-> u[1], a_max |-> u[Len(u)], da |-> da,
                  len_a |-> AxisLen(u[1], u[Len(u)], da)]

_index(a, a_min, da) == FInt(FDiv(FSub(a, a_min), da))

FHalf(x) == FDiv(x, FTwo)

\* for x, y, z in zip(lons, lats, data): zz[_index(y), _index(x)] = z
RECURSIVE FillGrid(_, _, _, _, _, _, _)
FillGrid(zz, lons, lats, data, xe, ye, i) ==
    IF i > Len(data) THEN [exc |-> "none", zz |-> zz]
    ELSE LET r == _index(lats[i], ye.a_min, ye.da)
             c == _index(lons[i], xe.a_min, xe.da)
         IN  IF r >= ye.len_a \/ c >= xe.len_a THEN [exc |-> "IndexError", zz |-> zz]
             ELSE FillGrid([zz EXCEPT ![r + 1][c + 1] = Cell(data[i])],
                           lons, lats, data, xe, ye, i + 1)

geotraj_to_geo2d(df, scale) ==
    LET lons == [i \in DOMAIN df |-> Coord(df[i].lon, scale)]
        lats == [i \in DOMAIN df |-> Coord(df[i].lat, scale)]
        data == [i \in DOMAIN df |-> df[i].val]
        xe == _get_even(lons)
        ye == _get_even(lats)
        empty == [r \in 1..ye.len_a |-> [c \in 1..xe.len_a |-> NaN]]
        filled == FillGrid(empty, lons, lats, data, xe, ye, 1)
    IN  IF xe.exc # "none" THEN [exc |-> xe.exc]
        ELSE IF ye.exc # "none" THEN [exc |-> ye.exc]
        ELSE IF filled.exc # "none" THEN [exc |-> filled.exc]
        ELSE [exc |-> "none", zz |-> filled.zz,
              data_extent |-> << FSub(xe.a_min, FHalf(xe.da)), FAdd(xe.a_max, FHalf(xe.da)),
                                 FSub(ye.a_min, FHalf(ye.da)), FAdd(ye.a_max, FHalf(ye.da)) >>,
              x |-> xe, y |-> ye]

-----------------------------------------------------------------------------
(* get_value_range, get_quantiles, get_cbarextend                          *)
(*                                                                         *)
(* Data values are integers.  Quantile levels are numerators over QScale   *)
(* (0.025 = 1/40, 0.975 = 39/40) and every range bound is carried in units *)
(* of 1/QScale, so that linear interpolation is exact.                     *)

QScale == 40

\* Python's None for an optional registry bound, and a bound that is given
NoBound == <<>>

Bound(b) == <<b>>

\* metric = None
NoMetric == "None"

Abs(x) == IF x < 0 THEN -x ELSE x

Max2(x, y) == IF x >= y THEN x ELSE y

RECURSIVE SeqMin(_)
SeqMin(q) ==
    IF Len(q) = 1 THEN q[1]
    ELSE LET m == SeqMin(Tail(q)) IN IF q[1] <= m THEN q[1] ELSE m

RECURSIVE SeqMax(_)
SeqMax(q) ==
    IF Len(q) = 1 THEN q[1]
    ELSE LET m == SeqMax(Tail(q)) IN IF q[1] >= m THEN q[1] ELSE m

RECURSIVE InsertSorted(_, _)
InsertSorted(q, x) ==
    IF q = <<>> THEN <<x>>
    ELSE IF x <= q[1] THEN <<x>> \o q
    ELSE <<q[1]>> \o InsertSorted(Tail(q), x)

RECURSIVE SortInts(_)
SortInts(q) == IF q = <<>> THEN <<>> ELSE InsertSorted(SortInts(Tail(q)), q[1])

\* Series.quantile(level), linear interpolation, level = a/QScale; in 1/QScale
Quantile(data, a) ==
    LET x == SortInts(data)
        pos == a * (Len(x) - 1)
        lo == pos \div QScale
        rem == pos % QScale
    IN  QScale * x[lo + 1] + (IF rem = 0 THEN 0 ELSE (x[lo + 2] - x[lo + 1]) * rem)

\* objects that have a .quantile method; a list or an ndarray has none
HasQuantile(ds) == ds.kind \in {"Series", "DataFrame", "GroupBy"}

get_quantiles(ds, quantiles) ==
    IF ~HasQuantile(ds) THEN [exc |-> "AttributeError"]
    ELSE IF ds.kind = "Series"
         THEN [exc |-> "none", v_min |-> Quantile(ds.data, quantiles[1]),
               v_max |-> Quantile(ds.data, quantiles[2])]
    ELSE IF ds.kind = "DataFrame"
         THEN [exc |-> "none",
               v_min |-> SeqMin([c \in DOMAIN ds.cols |-> Quantile(ds.cols[c], quantiles[1])]),
               v_max |-> SeqMax([c \in DOMAIN ds.cols |-> Quantile(ds.cols[c], quantiles[2])])]
    ELSE [exc |-> "TypeError"]

\* a registry bound as a range value
Fixed(b) == QScale * b[1]

\* if metric == None: force_quantile=True, with the flag dropped
force_flag_only(metric, force_quantile) == force_quantile

\* if metric == None: force_quantile=True
force_default(metric, force_quantile) == force_quantile \/ metric = NoMetric

\* the symmetric range without the absolute values
symmetric_range_noabs(q) ==
    [v_min |-> -Max2(q.v_min, q.v_max), v_max |-> Max2(q.v_min, q.v_max)]

\* v_max = max(abs(v_min), abs(v_max)); v_min = -v_max
symmetric_range(q) ==
    [v_min |-> -Max2(Abs(q.v_min), Abs(q.v_max)),
     v_max |-> Max2(Abs(q.v_min), Abs(q.v_max))]

\* one registry bound missing, taken from the wrong end of the quantile range
one_sided_range_swapped(lo, hi, q) ==
    IF lo = NoBound THEN [v_min |-> q.v_max, v_max |-> Fixed(hi)]
    ELSE [v_min |-> Fixed(lo), v_max |-> q.v_min]

\* elif v_min == None: v_min = get_quantiles(...)[0]
\* elif v_max == None: v_max = get_quantiles(...)[1]
one_sided_range(lo, hi, q) ==
    IF lo = NoBound THEN [v_min |-> q.v_min, v_max |-> Fixed(hi)]
    ELSE [v_min |-> Fixed(lo), v_max |-> q.v_max]

\* the quantile range, or the exception get_quantiles raised
quantile_range(q) ==
    IF q.exc # "none" THEN [exc |-> q.exc]
    ELSE [exc |-> "none", v_min |-> q.v_min, v_max |-> q.v_max]

\* the KeyError of an unknown metric left uncaught
unknown_metric_raises(metric, q) ==
    [exc |-> "KeyError", warnings |-> <<>>, reads |-> 1]

\* except KeyError: force_quantile = True; warnings.warn(...), then the quantile range.
\* The registry is read twice: the lookup that raises KeyError and the iteration
\* over its keys that lists the known metrics in the warning.
unknown_metric(metric, q) ==
    quantile_range(q) @@ [warnings |-> <<metric>>, reads |-> 2]

\* outcome of get_value_range: the exception or the pair, the warnings emitted and
\* the number of reads of globals._metric_value_ranges
get_value_range(ds, metric, force_quantile, quantiles, registry) ==
    LET q == get_quantiles(ds, quantiles)
        quiet(n) == [warnings |-> <<>>, reads |-> n]
    IN  IF force_default(metric, force_quantile) THEN quantile_range(q) @@ quiet(0)
        ELSE IF metric \notin DOMAIN registry THEN unknown_metric(metric, q)
        ELSE LET lo == registry[metric][1]
                 hi == registry[metric][2]
             IN  IF lo # NoBound /\ hi # NoBound
                 THEN [exc |-> "none", v_min |-> Fixed(lo), v_max |-> Fixed(hi)] @@ quiet(2)
                 ELSE IF q.exc # "none" THEN [exc |-> q.exc] @@ quiet(2)
                 ELSE IF lo = NoBound /\ hi = NoBound
                 THEN [exc |-> "none"] @@ symmetric_range(q) @@ quiet(2)
                 ELSE [exc |-> "none"] @@ one_sided_range(lo, hi, q) @@ quiet(2)

\* get_cbarextend with the labels of the one-sided cases exchanged
get_cbarextend_swapped(ds, v_min, v_max) ==
    IF v_min <= SeqMin(ds)
    THEN IF v_max >= SeqMax(ds) THEN "neither" ELSE "min"
    ELSE IF v_max >= SeqMax(ds) THEN "max" ELSE "both"

get_cbarextend(ds, v_min, v_max) ==
    IF v_min <= SeqMin(ds)
    THEN IF v_max >= SeqMax(ds) THEN "neither" ELSE "max"
    ELSE IF v_max >= SeqMax(ds) THEN "min" ELSE "both"

\* vrange = globals._metric_value_ranges[metric], then the case split on None
get_cbarextend2(metric, registry) ==
    IF metric \notin DOMAIN registry THEN [exc |-> "KeyError"]
    ELSE LET vrange == registry[metric]
         IN  [exc |-> "none",
              extend |-> IF vrange[1] = NoBound
                         THEN IF vrange[2] = NoBound THEN "both" ELSE "min"
                         ELSE IF vrange[2] = NoBound THEN "max" ELSE "neither"]

\* the commented-out line: extend=get_cbarextend(ds,v_min,v_max)
cbar_extend_from_data(ds, v_min, v_max, metric, registry) ==
    IF metric \notin DOMAIN registry THEN [exc |-> "KeyError"]
    ELSE [exc |-> "none", extend |-> get_cbarextend(ds, v_min, v_max)]

\* extend=get_cbarextend2(metric)
cbar_extend(ds, v_min, v_max, metric, registry) == get_cbarextend2(metric, registry)

\* label is "given" by the caller, or built from the display tables of globals, which
\* know the metric and reference ("tables") or do not ("missing"); the outcome is
\* the extend argument of fig.colorbar
_make_cbar(ds, v_min, v_max, metric, label, registry) ==
    IF label = "missing" THEN [exc |-> "Exception"]
    ELSE cbar_extend(ds, v_min, v_max, metric, registry)

-----------------------------------------------------------------------------
(* _get_globmeta: the metadata shared by all variables of a plot           *)

\* globkeys = ['metric', 'ref', 'ref_pretty_name', 'ref_version', 'ref_version_pretty_name']
globkeys == {"metric", "ref", "ref_pretty_name", "ref_version", "ref_version_pretty_name"}

\* get_globdict comparing the whole metadata of a variable
get_globdict_all(meta) == meta

\* return {k:meta[k] for k in globkeys}
get_globdict(meta) == [k \in globkeys |-> meta[k]]

\* the while loop over the remaining variables: raise on the first that differs
RECURSIVE CompareRest(_, _, _)
CompareRest(varmeta, i, globmeta) ==
    IF i > Len(varmeta) THEN [exc |-> "none", globmeta |-> globmeta]
    ELSE IF globmeta # get_globdict(varmeta[i]) THEN [exc |-> "Exception"]
    ELSE CompareRest(varmeta, i + 1, globmeta)

\* varmeta is the mapping in iteration order: a sequence of metadata records
_get_globmeta(varmeta) ==
    IF Len(varmeta) = 0 THEN [exc |-> "StopIteration"]
    ELSE CompareRest(varmeta, 2, get_globdict(varmeta[1]))

-----------------------------------------------------------------------------
(* State: one call of a routine, from its inputs to its outcome.  The      *)
(* routines share no state; pc is the position of the caller.              *)

VARIABLES
    pc,        \* "input" -> "ready" -> "done"
    scale,     \* decimal denominator of the coordinate literals (1 or 10)
    lattice,   \* [o, s]: the lattice the points are sampled from, o + i*s over scale
    axis,      \* one coordinate column, as numerators over scale
    even,      \* outcome of _get_even(axis)
    G,         \* the known Grid Array that was flattened into df, <<>> if none
    df,        \* the DataFrame: a sequence of records [lat, lon, val]
    geo,       \* outcome of geotraj_to_geo2d(df)
    registry,  \* globals._metric_value_ranges: metric -> <<lower, upper>>
    args,      \* arguments of the value-range call
    ret        \* its outcome

vars == <<pc, scale, lattice, axis, even, G, df, geo, registry, args, ret>>

gridvars == <<scale, lattice, axis, even, G, df, geo>>

rangevars == <<registry, args, ret>>

MaxIndex == 5

MaxRow == 3

MaxCol == 1

MaxRecords == 3

MaxLen == 3

MaxAbs == 1

Scales == {1, 10}

Origins == {0, 1}

Steps == {1, 4}

None == [exc |-> "not called"]

GridIdle ==
    /\ scale = 1 /\ lattice = [o |-> 0, s |-> 1]
    /\ axis = <<>> /\ even = None /\ G = <<>> /\ df = <<>> /\ geo = None

RangeIdle == registry = <<>> /\ args = <<>> /\ ret = None

\* coordinate numerator of lattice index i
At(lt, i) == lt.o + i * lt.s

-----------------------------------------------------------------------------
(* SpecEven: _get_even on one coordinate column                            *)

RECURSIVE Ascending(_)
Ascending(S) ==
    IF S = {} THEN <<>>
    ELSE LET lo == CHOOSE x \in S : \A y \in S : x <= y
         IN  <<lo>> \o Ascending(S \ {lo})

Reverse(q) == [i \in DOMAIN q |-> q[Len(q) + 1 - i]]

InitEven ==
    /\ pc = "input"
    /\ scale \in Scales
    /\ lattice \in [o : Origins, s : Steps]
    /\ axis = <<>> /\ even = None /\ G = <<>> /\ df = <<>> /\ geo = None
    /\ RangeIdle

\* the column of a table sampled from the lattice with some points missing:
\* every remaining coordinate occurs rep times, in ascending or descending order
SampleAxis ==
    /\ pc = "input"
    /\ \E kept \in SUBSET (0..MaxIndex), rep \in 1..2, desc \in BOOLEAN :
          LET once == Ascending({At(lattice, i) : i \in kept})
              col == IF rep = 1 THEN once ELSE once \o once
          IN  axis' = IF desc THEN Reverse(col) ELSE col
    /\ pc' = "ready"
    /\ UNCHANGED <<scale, lattice, even, G, df, geo, rangevars>>

GetEven ==
    /\ pc = "ready"
    /\ even' = _get_even([i \in DOMAIN axis |-> Coord(axis[i], scale)])
    /\ pc' = "done"
    /\ UNCHANGED <<scale, lattice, axis, G, df, geo, rangevars>>

NextEven == SampleAxis \/ GetEven

SpecEven == InitEven /\ [][NextEven]_vars

-----------------------------------------------------------------------------
(* SpecGrid: geotraj_to_geo2d on a table of point records                  *)

CellSeqs == UNION {[1..n -> (0..MaxRow) \X (0..MaxCol)] : n \in 0..MaxRecords}

\* the values of a fully populated grid: distinct, row-major numbering
GridValues(nr, nc) == [r \in 1..nr |-> [c \in 1..nc |-> (r - 1) * nc + c]]

Orders == {"C", "F", "reversed"}

\* position k of the flattened grid, as <<row, column>> (1-based)
FlatCell(nr, nc, order, k) ==
    CASE order = "C" -> <<((k - 1) \div nc) + 1, ((k - 1) % nc) + 1>>
      [] order = "F" -> <<((k - 1) % nr) + 1, ((k - 1) \div nr) + 1>>
      [] order = "reversed" -> <<((nr * nc - k) \div nc) + 1, ((nr * nc - k) % nc) + 1>>

InitGrid == InitEven

\* the caller hands over point records sampled from the lattice, in any order,
\* with repetitions; record i carries the value i
Sample ==
    /\ pc = "input"
    /\ \E cells \in CellSeqs :
          df' = [i \in DOMAIN cells |->
                    [lat |-> At(lattice, cells[i][1]), lon |-> At(lattice, cells[i][2]),
                     val |-> i]]
    /\ pc' = "ready"
    /\ UNCHANGED <<scale, lattice, axis, even, G, geo, rangevars>>

\* the caller flattens a fully populated grid into point records
Flatten ==
    /\ pc = "input"
    /\ \E nr \in 2..(MaxRow + 1), nc \in 2..(MaxCol + 1), order \in Orders :
          /\ G' = GridValues(nr, nc)
          /\ df' = [k \in 1..(nr * nc) |->
                      LET rc == FlatCell(nr, nc, order, k)
                      IN  [lat |-> At(lattice, rc[1] - 1), lon |-> At(lattice, rc[2] - 1),
                           val |-> GridValues(nr, nc)[rc[1]][rc[2]]]]
    /\ pc' = "ready"
    /\ UNCHANGED <<scale, lattice, axis, even, geo, rangevars>>

Reconstruct ==
    /\ pc = "ready"
    /\ geo' = geotraj_to_geo2d(df, scale)
    /\ pc' = "done"
    /\ UNCHANGED <<scale, lattice, axis, even, G, df, rangevars>>

NextGrid == Sample \/ Flatten \/ Reconstruct

SpecGrid == InitGrid /\ [][NextGrid]_vars

-----------------------------------------------------------------------------
(* SpecRange: get_value_range and get_quantiles                            *)

DataValues == (-MaxAbs)..MaxAbs

DataSeqs == UNION {[1..n -> DataValues] : n \in 1..MaxLen}

\* a Series, a DataFrame of two columns of two rows, a list, a GroupBy
DsInputs ==
    {[kind |-> "Series", data |-> d] : d \in DataSeqs}
    \cup {[kind |-> "DataFrame", cols |-> <<c1, c2>>] :
              c1 \in [1..2 -> DataValues], c2 \in [1..2 -> {-MaxAbs, MaxAbs}]}
    \cup {[kind |-> "list"], [kind |-> "GroupBy"]}

\* levels over QScale: the default [0.025, 0.975] and the quartiles
QuantileChoices == {<<1, 39>>, <<10, 30>>}

RegistryBounds == {NoBound} \cup {Bound(b) : b \in {-1, 1}}

Registries == [{"R"} -> RegistryBounds \X RegistryBounds]

MetricArgs == {NoMetric, "R", "XYZ"}

InitRange ==
    /\ pc = "ready"
    /\ GridIdle
    /\ registry \in Registries
    /\ args \in [ds : DsInputs, metric : MetricArgs, force_quantile : BOOLEAN,
                 quantiles : QuantileChoices]
    /\ ret = None

GetValueRange ==
    /\ pc = "ready"
    /\ ret' = [op |-> "get_value_range"] @@
              get_value_range(args.ds, args.metric, args.force_quantile, args.quantiles,
                              registry)
    /\ pc' = "done"
    /\ UNCHANGED <<gridvars, registry, args>>

GetQuantiles ==
    /\ pc = "ready"
    /\ ret' = [op |-> "get_quantiles"] @@ get_quantiles(args.ds, args.quantiles)
    /\ pc' = "done"
    /\ UNCHANGED <<gridvars, registry, args>>

NextRange == GetValueRange \/ GetQuantiles

SpecRange == InitRange /\ [][NextRange]_vars

-----------------------------------------------------------------------------
(* SpecExtend: get_cbarextend                                              *)

InitExtend ==
    /\ pc = "ready"
    /\ GridIdle
    /\ registry = <<>>
    /\ args \in [ds : DataSeqs, v_min : (-MaxAbs - 1)..(MaxAbs + 1),
                 v_max : (-MaxAbs - 1)..(MaxAbs + 1)]
    /\ ret = None

GetCbarExtend ==
    /\ pc = "ready"
    /\ ret' = [op |-> "get_cbarextend", exc |-> "none",
               extend |-> get_cbarextend(args.ds, args.v_min, args.v_max)]
    /\ pc' = "done"
    /\ UNCHANGED <<gridvars, registry, args>>

NextExtend == GetCbarExtend

SpecExtend == InitExtend /\ [][NextExtend]_vars

-----------------------------------------------------------------------------
(* SpecCbar: _make_cbar, the colorbar of scatterplot and mapplot           *)

LabelArgs == {"given", "tables", "missing"}

RangeEnds == {-MaxAbs, 0, MaxAbs}

InitCbar ==
    /\ pc = "ready"
    /\ GridIdle
    /\ registry \in Registries
    /\ args \in [ds : DataSeqs, v_min : RangeEnds, v_max : RangeEnds,
                 metric : {"R", "XYZ"}, label : LabelArgs]
    /\ ret = None

MakeCbar ==
    /\ pc = "ready"
    /\ ret' = [op |-> "_make_cbar"] @@
              _make_cbar(args.ds, args.v_min, args.v_max, args.metric, args.label, registry)
    /\ pc' = "done"
    /\ UNCHANGED <<gridvars, registry, args>>

NextCbar == MakeCbar

SpecCbar == InitCbar /\ [][NextCbar]_vars

-----------------------------------------------------------------------------
(* SpecMeta: _get_globmeta                                                 *)

MaxVars == 3

MetaValues == {"a", "b"}

\* the mapping in iteration order; every variable carries the global fields and,
\* outside them, its own dataset name
VarMeta(g) == [i \in DOMAIN g |-> g[i] @@ [ds |-> i]]

InitMeta ==
    /\ pc = "ready"
    /\ GridIdle
    /\ registry = <<>>
    /\ \E n \in 0..MaxVars : \E g \in [1..n -> [globkeys -> MetaValues]] :
           args = [varmeta |-> VarMeta(g)]
    /\ ret = None

GetGlobmeta ==
    /\ pc = "ready"
    /\ ret' = [op |-> "_get_globmeta"] @@ _get_globmeta(args.varmeta)
    /\ pc' = "done"
    /\ UNCHANGED <<gridvars, registry, args>>

NextMeta == GetGlobmeta

SpecMeta == InitMeta /\ [][NextMeta]_vars

-----------------------------------------------------------------------------
(* Claims about _get_even, checked under SpecEven                          *)

Done == pc = "done"

AxisKs == {axis[i] : i \in DOMAIN axis}

SetMin(S) == CHOOSE x \in S : \A y \in S : x <= y

\* greatest common divisor of the gaps between the values of K, by definition
StepOf(K) ==
    LET gaps == {k - SetMin(K) : k \in K} \ {0}
    IN  CHOOSE d \in 1..SetMin(gaps) :
            /\ \A x \in gaps : x % d = 0
            /\ \A e \in (d + 1)..SetMin(gaps) : \E x \in gaps : x % e # 0

\* |x - y| <= 1e-08
Near(x, y) == ~FLess(FAtol, FAbs(FSub(x, y)))

\* C1 as stated: whatever points are missing, as long as two distinct values remain
\* on the axis, the inferred step is the lattice step s (within 1e-08).
C1_StepIsLatticeStep ==
    (Done /\ Cardinality(AxisKs) >= 2) =>
        (even.exc = "none" /\ Near(even.da, Coord(lattice.s, scale)))

\* C1 amended: the inferred step is (within 1e-08) the greatest common divisor of
\* the gaps between the coordinates that remain, a whole multiple of s; it is s
\* exactly when those gaps, counted in steps, have no common factor.
C1_StepIsGcdOfGaps ==
    (Done /\ Cardinality(AxisKs) >= 2) =>
        /\ even.exc = "none"
        /\ Near(even.da, Coord(StepOf(AxisKs), scale))
        /\ StepOf(AxisKs) % lattice.s = 0

\* C1 witness: tenths, gaps of 2 and 3 steps remain, and the step is recovered
C1_Witness ==
    /\ Done /\ even.exc = "none"
    /\ scale = 10 /\ lattice.s = 4
    /\ AxisKs = {At(lattice, 0), At(lattice, 2), At(lattice, 5)}
    /\ Near(even.da, Coord(lattice.s, scale))

-----------------------------------------------------------------------------
(* Claims about geotraj_to_geo2d, checked under SpecGrid                   *)

LatKs == {df[i].lat : i \in DOMAIN df}

LonKs == {df[i].lon : i \in DOMAIN df}

TwoPerAxis == Cardinality(LatKs) >= 2 /\ Cardinality(LonKs) >= 2

FOneHalf == FHalf(FOne)

\* round(x) for x >= 0: to nearest, ties to even
FRound(x) ==
    LET t == FInt(x)
        frac == FSub(x, FFromInt(t))
    IN  IF FLess(frac, FOneHalf) THEN t
        ELSE IF FLess(FOneHalf, frac) THEN t + 1
        ELSE IF t % 2 = 0 THEN t ELSE t + 1

\* C2: flattening a fully populated grid in any order and reconstructing it returns
\* the grid, cell for cell, row 0 the lowest latitude and column 0 the lowest longitude.
C2_RoundTrip ==
    (Done /\ G # <<>>) =>
        /\ geo.exc = "none"
        /\ geo.zz = [r \in DOMAIN G |-> [c \in DOMAIN G[r] |-> Cell(G[r][c])]]

RoundRow(i) == FRound(FDiv(FSub(Coord(df[i].lat, scale), geo.y.a_min), geo.y.da))

RoundCol(i) == FRound(FDiv(FSub(Coord(df[i].lon, scale), geo.x.a_min), geo.x.da))

\* C3: every cell (r, c) of the returned array holds the value of the last record
\* whose rounded indices round((lat - lat_min)/lat_step), round((lon - lon_min)/lon_step)
\* are (r, c), and NaN when no record maps to it.
C3_CellsByRoundedIndex ==
    (Done /\ geo.exc = "none") =>
        LET row == [i \in DOMAIN df |-> RoundRow(i)]
            col == [i \in DOMAIN df |-> RoundCol(i)]
        IN  /\ \A i \in DOMAIN df :
                  /\ row[i] + 1 \in DOMAIN geo.zz
                  /\ col[i] + 1 \in DOMAIN geo.zz[1]
            /\ \A r \in DOMAIN geo.zz : \A c \in DOMAIN geo.zz[r] :
                  LET hits == {i \in DOMAIN df : row[i] = r - 1 /\ col[i] = c - 1}
                  IN  geo.zz[r][c] =
                        IF hits = {} THEN NaN
                        ELSE Cell(df[CHOOSE i \in hits : \A j \in hits : j <= i].val)

\* C4: with fewer than 2 distinct latitudes or longitudes the call raises and
\* returns neither grid nor extent.
C4_DegenerateAxisRaises ==
    (Done /\ ~TwoPerAxis) => (geo.exc # "none" /\ DOMAIN geo = {"exc"})

\* C4 witness: several records, one latitude, two longitudes, IndexError raised
C4_Witness ==
    /\ Done /\ Len(df) >= 2
    /\ Cardinality(LatKs) = 1 /\ Cardinality(LonKs) = 2
    /\ geo.exc = "IndexError"

-----------------------------------------------------------------------------
(* Claims about get_value_range and get_quantiles, checked under SpecRange *)

Ranged == Done /\ ret.op = "get_value_range"

Tabular == args.ds.kind \in {"Series", "DataFrame"}

Known == args.metric \in DOMAIN registry

LowerGiven == Known /\ registry[args.metric][1] # NoBound

UpperGiven == Known /\ registry[args.metric][2] # NoBound

\* the quantile range of the call's data, as get_quantiles returns it
DataQuantiles == get_quantiles(args.ds, args.quantiles)

\* C5: metric known, both registry bounds None, force_quantile false: the range is
\* symmetric, v_min = -v_max, and v_max = max(|lower quantile|, |upper quantile|).
C5_SymmetricRange ==
    (Ranged /\ Tabular /\ ~args.force_quantile /\ Known /\ ~LowerGiven /\ ~UpperGiven) =>
        /\ ret.exc = "none"
        /\ ret.v_min = -ret.v_max
        /\ ret.v_max >= DataQuantiles.v_max /\ ret.v_max >= -DataQuantiles.v_min
        /\ ret.v_max >= -DataQuantiles.v_max /\ ret.v_max >= DataQuantiles.v_min
        /\ ret.v_max \in {DataQuantiles.v_max, -DataQuantiles.v_max,
                          DataQuantiles.v_min, -DataQuantiles.v_min}

\* C5 witness: a series whose quantiles are both negative, so the bound is |lower|
C5_Witness ==
    /\ Ranged /\ args.ds.kind = "Series" /\ ~args.force_quantile
    /\ Known /\ ~LowerGiven /\ ~UpperGiven
    /\ DataQuantiles.v_max < 0
    /\ ret.v_max = -DataQuantiles.v_min /\ ret.v_max > -DataQuantiles.v_max

\* C6: with force_quantile true or metric None the registry is never read and the
\* result is the data's quantile range at the requested levels.
C6_ForcedQuantiles ==
    (Ranged /\ (args.force_quantile \/ args.metric = NoMetric)) =>
        /\ ret.reads = 0
        /\ ret.exc = DataQuantiles.exc
        /\ ret.exc = "none" =>
              (ret.v_min = DataQuantiles.v_min /\ ret.v_max = DataQuantiles.v_max)
        /\ (ret.exc = "none" /\ args.ds.kind = "Series") =>
              /\ ret.v_min = Quantile(args.ds.data, args.quantiles[1])
              /\ ret.v_max = Quantile(args.ds.data, args.quantiles[2])

\* C6 witness: metric None, flag false, a registry that fixes both bounds for "R"
C6_Witness ==
    /\ Ranged /\ args.metric = NoMetric /\ ~args.force_quantile
    /\ args.ds.kind = "Series" /\ Len(args.ds.data) = 3
    /\ registry["R"] = <<Bound(-1), Bound(1)>>
    /\ ret.exc = "none" /\ ret.v_min < ret.v_max /\ ret.reads = 0

\* the same call with force_quantile = True
ForcedCall ==
    get_value_range(args.ds, args.metric, TRUE, args.quantiles, registry)

\* C7: for a metric that is not in the registry the call does not fail, emits one
\* warning naming the metric and returns what the call with force_quantile true returns.
C7_UnknownMetricFallsBack ==
    (Ranged /\ Tabular /\ ~args.force_quantile /\ args.metric # NoMetric /\ ~Known) =>
        /\ ret.exc = "none"
        /\ ret.warnings = <<args.metric>>
        /\ ForcedCall.exc = "none"
        /\ ret.v_min = ForcedCall.v_min /\ ret.v_max = ForcedCall.v_max

\* C7 witness: the unknown metric "XYZ" on a DataFrame, one warning
C7_Witness ==
    /\ Ranged /\ args.metric = "XYZ" /\ ~args.force_quantile
    /\ args.ds.kind = "DataFrame"
    /\ ret.exc = "none" /\ Len(ret.warnings) = 1

\* C8: metric known, at least one registry bound given, force_quantile false: every
\* given bound is returned unchanged whatever the data, and a bound that is None is
\* the data quantile at its level (lower level for v_min, upper level for v_max).
C8_FixedBoundsKept ==
    (Ranged /\ ~args.force_quantile /\ Known /\ (LowerGiven \/ UpperGiven)) =>
        /\ (LowerGiven /\ UpperGiven) =>
              /\ ret.exc = "none"
              /\ ret.v_min = QScale * registry[args.metric][1][1]
              /\ ret.v_max = QScale * registry[args.metric][2][1]
        /\ (Tabular /\ LowerGiven /\ ~UpperGiven) =>
              /\ ret.exc = "none"
              /\ ret.v_min = QScale * registry[args.metric][1][1]
              /\ ret.v_max = DataQuantiles.v_max
        /\ (Tabular /\ ~LowerGiven /\ UpperGiven) =>
              /\ ret.exc = "none"
              /\ ret.v_min = DataQuantiles.v_min
              /\ ret.v_max = QScale * registry[args.metric][2][1]

\* C8 witness: only the upper bound given, v_min taken from the data
C8_Witness ==
    /\ Ranged /\ ~args.force_quantile /\ args.ds.kind = "Series"
    /\ Known /\ ~LowerGiven /\ UpperGiven
    /\ ret.exc = "none" /\ ret.v_min = DataQuantiles.v_min
    /\ DataQuantiles.v_min # DataQuantiles.v_max
    /\ ret.v_max # DataQuantiles.v_max

\* C9: get_quantiles raises TypeError for every input that is neither a Series nor
\* a DataFrame, and returns no bounds.
C9_TypeErrorForOtherInputs ==
    (Done /\ ret.op = "get_quantiles" /\ ~Tabular) =>
        (ret.exc = "TypeError" /\ DOMAIN ret = {"op", "exc"})

-----------------------------------------------------------------------------
(* Claims about get_cbarextend, checked under SpecExtend                   *)

CoversLow == \A i \in DOMAIN args.ds : args.v_min <= args.ds[i]

CoversHigh == \A i \in DOMAIN args.ds : args.v_max >= args.ds[i]

\* C10: 'neither' iff both bounds cover the data, 'max' iff only the lower does,
\* 'min' iff only the upper does, 'both' iff neither does; in particular
\* get_cbarextend(data, min(data), max(data)) is 'neither'.
C10_ExtendClassification ==
    (Done /\ ret.op = "get_cbarextend") =>
        /\ ret.extend = "neither" <=> (CoversLow /\ CoversHigh)
        /\ ret.extend = "max" <=> (CoversLow /\ ~CoversHigh)
        /\ ret.extend = "min" <=> (~CoversLow /\ CoversHigh)
        /\ ret.extend = "both" <=> (~CoversLow /\ ~CoversHigh)
        /\ ((\E i \in DOMAIN args.ds : args.v_min = args.ds[i]) /\ CoversLow
            /\ (\E i \in DOMAIN args.ds : args.v_max = args.ds[i]) /\ CoversHigh)
              => ret.extend = "neither"

\* C10 witness: the range lies strictly inside the data, 'both'
C10_Witness ==
    /\ Done /\ ret.op = "get_cbarextend" /\ Len(args.ds) = 3
    /\ ~CoversLow /\ ~CoversHigh /\ args.v_min <= args.v_max
    /\ ret.extend = "both"

-----------------------------------------------------------------------------
(* Claims about _make_cbar, checked under SpecCbar                         *)

\* C11: the extend flag _make_cbar passes to the colorbar is the by-metric
\* classification alone: 'both' if both registry bounds are None, 'min' if only the
\* lower is, 'max' if only the upper is, 'neither' if both are given, whatever the
\* data and (v_min, v_max), also where get_cbarextend would say otherwise.
C11_ExtendByMetricAlone ==
    (Done /\ ret.op = "_make_cbar" /\ ret.exc = "none") =>
        /\ Known
        /\ (~LowerGiven /\ ~UpperGiven) => ret.extend = "both"
        /\ (~LowerGiven /\ UpperGiven) => ret.extend = "min"
        /\ (LowerGiven /\ ~UpperGiven) => ret.extend = "max"
        /\ (LowerGiven /\ UpperGiven) => ret.extend = "neither"

\* C11 witness: both bounds given, 'neither' passed, the data-driven one says 'both'
C11_Witness ==
    /\ Done /\ ret.op = "_make_cbar" /\ ret.exc = "none"
    /\ LowerGiven /\ UpperGiven /\ ret.extend = "neither"
    /\ get_cbarextend(args.ds, args.v_min, args.v_max) = "both"

-----------------------------------------------------------------------------
(* Claims about _get_globmeta, checked under SpecMeta                      *)

\* variable i has the five global fields of the first variable
Agrees(i) == \A k \in globkeys : args.varmeta[i][k] = args.varmeta[1][k]

\* C12: for a non-empty mapping _get_globmeta raises iff some variable's global
\* fields differ from the first variable's; when all agree it returns exactly the
\* five global fields of the first variable; it returns nothing when one disagrees.
C12_GlobmetaConsistent ==
    (Done /\ ret.op = "_get_globmeta" /\ Len(args.varmeta) >= 1) =>
        /\ ret.exc # "none" <=> \E i \in DOMAIN args.varmeta : ~Agrees(i)
        /\ ret.exc # "none" => DOMAIN ret = {"op", "exc"}
        /\ ret.exc = "none" =>
              /\ DOMAIN ret.globmeta = globkeys
              /\ \A k \in globkeys : ret.globmeta[k] = args.varmeta[1][k]

\* C12 witness: three variables, the first two agree, the third differs in one
\* field only, and the call raises
C12_Witness ==
    /\ Done /\ ret.op = "_get_globmeta" /\ Len(args.varmeta) = 3
    /\ Agrees(2) /\ ~Agrees(3)
    /\ \A k \in globkeys \ {"ref_version"} : args.varmeta[3][k] = args.varmeta[1][k]
    /\ ret.exc = "Exception"

-----------------------------------------------------------------------------
(* Claims about the shape and the extent, checked under SpecGrid           *)

\* round((max - min) / step) + 1 for an axis returned by _get_even
RoundLen(ax) == FRound(FDiv(FSub(ax.a_max, ax.a_min), ax.da)) + 1

\* C13: the returned array has shape (lat_length, lon_length), each length being
\* round((max - min) / step) + 1 of its axis, and every record's computed row and
\* column index lies inside the array.
C13_ShapeByRoundedLength ==
    (Done /\ geo.exc = "none") =>
        /\ Len(geo.zz) = RoundLen(geo.y)
        /\ \A r \in DOMAIN geo.zz : Len(geo.zz[r]) = RoundLen(geo.x)
        /\ \A i \in DOMAIN df :
              /\ _index(Coord(df[i].lat, scale), geo.y.a_min, geo.y.da) \in 0..(Len(geo.zz) - 1)
              /\ _index(Coord(df[i].lon, scale), geo.x.a_min, geo.x.da) \in 0..(Len(geo.zz[1]) - 1)

\* n * x, by repeated addition
RECURSIVE Times(_, _)
Times(n, x) == IF n = 0 THEN FZero ELSE FAdd(Times(n - 1, x), x)

\* C14: the data extent is (lon_min - lon_step/2, lon_max + lon_step/2,
\* lat_min - lat_step/2, lat_max + lat_step/2) in that order, so that its width is
\* lon_length * lon_step and its height lat_length * lat_step (within 1e-08).
C14_ExtentByHalfSteps ==
    (Done /\ geo.exc = "none") =>
        /\ geo.data_extent[1] = FSub(geo.x.a_min, FDiv(geo.x.da, FTwo))
        /\ geo.data_extent[2] = FAdd(geo.x.a_max, FDiv(geo.x.da, FTwo))
        /\ geo.data_extent[3] = FSub(geo.y.a_min, FDiv(geo.y.da, FTwo))
        /\ geo.data_extent[4] = FAdd(geo.y.a_max, FDiv(geo.y.da, FTwo))
        /\ Near(FSub(geo.data_extent[2], geo.data_extent[1]),
                Times(Len(geo.zz[1]), geo.x.da))
        /\ Near(FSub(geo.data_extent[4], geo.data_extent[3]),
                Times(Len(geo.zz), geo.y.da))

-----------------------------------------------------------------------------
(* Claim about the order of the range, checked under SpecRange             *)

\* the registry itself gives the metric of the call a lower bound above the upper
RegistryInverted ==
    /\ LowerGiven /\ UpperGiven
    /\ registry[args.metric][1][1] > registry[args.metric][2][1]

\* C15: for every data, every metric (known, unknown or None) and quantile levels
\* lower <= upper, the range get_value_range returns is ordered, v_min <= v_max,
\* also when the registry fixes one bound and the other is a quantile of the data.
C15_RangeWellOrdered ==
    (Ranged /\ ret.exc = "none" /\ args.quantiles[1] <= args.quantiles[2]
       /\ (args.force_quantile \/ ~RegistryInverted)) =>
        ret.v_min <= ret.v_max

====
